---- MODULE Spec2Model ----
(***************************************************************************)
(* Scratch-ticket expected-value engines:                                  *)
(*   src/script.js      single-game EV calculator (computeEV)              *)
(*   src/scratchers.js  multi-game overview engine (computeOverview)       *)
(*                                                                         *)
(* JavaScript numbers are modelled as binary floating-point values with a  *)
(* Prec-bit significand, round-to-nearest-even after every arithmetic      *)
(* operation and an unbounded exponent, together with NaN, +Infinity,      *)
(* -Infinity and the value undefined.  A number is a record [n, d]:        *)
(*   d > 0   the finite value n/d (in lowest terms),                       *)
(*   d = 0   NaN (n = 0), +Infinity (n = 1), -Infinity (n = -1),           *)
(*   d = -1  undefined (a missing field).                                  *)
(* Signed zero is not distinguished.                                       *)
(***************************************************************************)
EXTENDS Integers, Sequences, FiniteSets, TLC

\* ------------------------------------------------------------------ bounds
\* Bits of significand of the modelled floating-point format.
Prec == 8
\* Largest number of tiers of a game record built from TierPool.
MaxTiers == 2
\* Largest number of tiers of a game record built from MedianPool.
MaxMedianTiers == 4
\* Largest number of games of a batch.
MaxGames == 2

\* ----------------------------------------------------------------- numbers
\* Every operator takes its operands as parameters and names no intermediate
\* value twice, so that each is evaluated once.
NaN == [n |-> 0, d |-> 0]
PosInf == [n |-> 1, d |-> 0]
NegInf == [n |-> -1, d |-> 0]
Undefined == [n |-> 0, d |-> -1]
\* null, as in `let M = null`: falsy, and distinct from every number.
Null == [n |-> 0, d |-> -2]

Abs(i) == IF i < 0 THEN -i ELSE i

Sign(i) == IF i < 0 THEN -1 ELSE IF i > 0 THEN 1 ELSE 0

RECURSIVE GCD(_, _)
GCD(a, b) == IF b = 0 THEN a ELSE GCD(b, a % b)

RECURSIVE Pow2(_)
Pow2(k) == IF k <= 0 THEN 1 ELSE 2 * Pow2(k - 1)

TwoP == Pow2(Prec)

HalfTwoP == Pow2(Prec - 1)

NormBy(n, d, g) == [n |-> n \div g, d |-> d \div g]

\* The finite value n/d (d > 0) in lowest terms.
Norm(n, d) == NormBy(n, d, GCD(Abs(n), d))

\* The integer i as a number.
Num(i) == [n |-> i, d |-> 1]

\* ToNumber: undefined converts to NaN, every number to itself.
ToNum(x) == IF x.d < 0 THEN NaN ELSE x

\* isNaN(x)
IsNaN(x) == x.d < 0 \/ (x.d = 0 /\ x.n = 0)

IsFin(x) == x.d > 0

\* ToBoolean of a number, undefined or null: 0, NaN, undefined and null are falsy.
Truthy(x) == x.d >= 0 /\ x.n # 0

\* Round the positive rational n/d * 2^e to a Prec-bit significand, ties to even:
\* <<m, e>> with 2^(Prec-1) <= m <= 2^Prec and the result m * 2^e.
RECURSIVE RoundPos(_, _, _)
RoundPos(n, d, e) ==
    IF n >= 16 * d * TwoP THEN RoundPos(n, 16 * d, e + 4)
    ELSE IF n >= d * TwoP THEN RoundPos(n, 2 * d, e + 1)
    ELSE IF 16 * n < d * HalfTwoP THEN RoundPos(16 * n, d, e - 4)
    ELSE IF n < d * HalfTwoP THEN RoundPos(2 * n, d, e - 1)
    ELSE <<IF 2 * (n % d) > d \/ (2 * (n % d) = d /\ (n \div d) % 2 = 1)
           THEN (n \div d) + 1 ELSE n \div d, e>>

\* sgn * m * 2^e
Scaled(sgn, me) ==
    IF me[2] >= 0 THEN [n |-> sgn * me[1] * Pow2(me[2]), d |-> 1]
    ELSE Norm(sgn * me[1], Pow2(-me[2]))

FlNorm(x) ==
    IF x.d = 1 /\ Abs(x.n) <= TwoP THEN x
    ELSE Scaled(Sign(x.n), RoundPos(Abs(x.n), x.d, 0))

\* The floating-point value nearest to the exact rational n/d (d > 0).
Fl(n, d) ==
    IF d = 1 /\ n <= TwoP /\ -n <= TwoP THEN [n |-> n, d |-> 1]
    ELSE IF n = 0 THEN [n |-> 0, d |-> 1]
    ELSE FlNorm(Norm(n, d))

MulN(a, b) ==
    IF IsNaN(a) \/ IsNaN(b) THEN NaN
    ELSE IF a.d = 0 \/ b.d = 0
         THEN IF a.n = 0 \/ b.n = 0 THEN NaN
              ELSE IF Sign(a.n) = Sign(b.n) THEN PosInf ELSE NegInf
    ELSE Fl(a.n * b.n, a.d * b.d)

\* a * b
Mul(a, b) == MulN(ToNum(a), ToNum(b))

DivN(a, b) ==
    IF IsNaN(a) \/ IsNaN(b) THEN NaN
    ELSE IF a.d = 0 THEN (IF b.d = 0 THEN NaN
                          ELSE IF a.n * (IF b.n < 0 THEN -1 ELSE 1) > 0
                               THEN PosInf ELSE NegInf)
    ELSE IF b.d = 0 THEN [n |-> 0, d |-> 1]
    ELSE IF b.n = 0 THEN (IF a.n = 0 THEN NaN
                          ELSE IF a.n > 0 THEN PosInf ELSE NegInf)
    ELSE Fl(Sign(b.n) * a.n * b.d, a.d * Abs(b.n))

\* a / b
Div(a, b) == DivN(ToNum(a), ToNum(b))

AddN(a, b) ==
    IF IsNaN(a) \/ IsNaN(b) THEN NaN
    ELSE IF a.d = 0 THEN (IF b.d = 0 /\ b.n # a.n THEN NaN ELSE a)
    ELSE IF b.d = 0 THEN b
    ELSE Fl(a.n * b.d + b.n * a.d, a.d * b.d)

\* a + b
Add(a, b) == AddN(ToNum(a), ToNum(b))

NegN(a) == [n |-> -a.n, d |-> a.d]

\* a - b
Sub(a, b) == AddN(ToNum(a), NegN(ToNum(b)))

LtN(a, b) ==
    IF IsNaN(a) \/ IsNaN(b) THEN FALSE
    ELSE IF a.d = 0 THEN a.n < 0 /\ ~(b.d = 0 /\ b.n < 0)
    ELSE IF b.d = 0 THEN b.n > 0
    ELSE a.n * b.d < b.n * a.d

\* a < b (false when either side is NaN)
Lt(a, b) == LtN(ToNum(a), ToNum(b))

\* a > b
Gt(a, b) == LtN(ToNum(b), ToNum(a))

\* a <= b (false when either side is NaN)
Le(a, b) == ~IsNaN(a) /\ ~IsNaN(b) /\ ~LtN(ToNum(b), ToNum(a))

\* -------------------------------------------------- script.js: computeEV
ErrNeedInput == "Need ticket price and at least one prize tier."
ErrNoEstimate == "Unable to estimate total remaining tickets."
MethodAnchor == "Ticket-tier anchor"
MethodMedian == "Median fallback"

\* Mutant of ResolveTicketValues: the value of every tier is overwritten.
ResolveTicketValues_All(tiers, ticketPrice) ==
    [i \in 1..Len(tiers) |-> [tiers[i] EXCEPT !.value = ticketPrice]]

\* for (const t of tiers) if (t.isTicket) t.value = ticketPrice;
RECURSIVE ResolveTicketValues(_, _)
ResolveTicketValues(tiers, ticketPrice) ==
    IF Len(tiers) = 0 THEN <<>>
    ELSE <<IF Head(tiers).isTicket THEN [Head(tiers) EXCEPT !.value = ticketPrice]
           ELSE Head(tiers)>> \o ResolveTicketValues(Tail(tiers), ticketPrice)

\* The predicate of tiers.find(...): a usable ticket-tier anchor.
IsAnchor(t) ==
    t.isTicket /\ Gt(t.total, Num(0)) /\ Gt(t.remaining, Num(0)) /\ ~IsNaN(t.odds)

\* tiers.find(...) from index i on: the index of the first usable anchor, 0
\* when there is none.
RECURSIVE FindFrom(_, _)
FindFrom(tiers, i) ==
    IF i > Len(tiers) THEN 0
    ELSE IF IsAnchor(tiers[i]) THEN i
    ELSE FindFrom(tiers, i + 1)

\* Mutant of FindTicketTier: the last usable anchor instead of the first.
FindTicketTier_Last(tiers) ==
    IF \A i \in 1..Len(tiers) : ~IsAnchor(tiers[i]) THEN 0
    ELSE CHOOSE i \in 1..Len(tiers) :
            IsAnchor(tiers[i]) /\ \A j \in (i + 1)..Len(tiers) : ~IsAnchor(tiers[j])

FindTicketTier(tiers) == FindFrom(tiers, 1)

\* Mutant of AnchorM: the pool is not scaled by the fraction remaining.
AnchorM_Unscaled(t) == Mul(t.total, t.odds)

\* Method A: M0 = total * odds; f = remaining / total; M = M0 * f.
AnchorM(t) == Mul(Mul(t.total, t.odds), Div(t.remaining, t.total))

\* The filter of Method B.
IsEstimable(t) == Gt(t.remaining, Num(0)) /\ ~IsNaN(t.odds) /\ Gt(t.odds, Num(0))

\* tiers.filter(...).map((t) => t.remaining * t.odds)
RECURSIVE Estimates(_)
Estimates(tiers) ==
    IF Len(tiers) = 0 THEN <<>>
    ELSE IF IsEstimable(Head(tiers))
         THEN <<Mul(Head(tiers).remaining, Head(tiers).odds)>> \o Estimates(Tail(tiers))
         ELSE Estimates(Tail(tiers))

\* Insert x into the ascending sequence s after every element not greater
\* than it (a - b > 0 moves a behind b; a NaN difference compares as equal).
RECURSIVE InsertAsc(_, _)
InsertAsc(s, x) ==
    IF Len(s) = 0 THEN <<x>>
    ELSE IF Gt(Sub(Head(s), x), Num(0)) THEN <<x>> \o s
         ELSE <<Head(s)>> \o InsertAsc(Tail(s), x)

\* Mutant of SortAsc: the estimates are left in the order of the tiers.
SortAsc_Unsorted(s) == s

\* estimates.sort((a, b) => a - b): a stable ascending sort.
RECURSIVE SortAsc(_)
SortAsc(s) ==
    IF Len(s) = 0 THEN <<>>
    ELSE InsertAsc(SortAsc(SubSeq(s, 1, Len(s) - 1)), s[Len(s)])

\* The median of a non-empty sorted sequence: mid = floor(length / 2), and
\* e[mid - 1], e[mid] of the code are e[mid], e[mid + 1] here.
MedianOfSorted(e) ==
    IF Len(e) % 2 = 0
    THEN Div(Add(e[Len(e) \div 2], e[(Len(e) \div 2) + 1]), Num(2))
    ELSE e[(Len(e) \div 2) + 1]

\* if (!M || M <= 0)
NoPool(M) == ~Truthy(M) \/ Le(M, Num(0))

\* Mutant of MedianFallback: Method B is never tried.
MedianFallback_Never(M, method, estimates) == [M |-> M, method |-> method]

\* Method B, entered with Method A's [M, method] and the estimates.
MedianFallback(M, method, estimates) ==
    IF NoPool(M) /\ Len(estimates) > 0
    THEN [M |-> MedianOfSorted(SortAsc(estimates)), method |-> MethodMedian]
    ELSE [M |-> M, method |-> method]

\* Method A with the index k of the anchor (0: none), then Method B.
PoolWithAnchor(tiers, k) ==
    IF k = 0 THEN MedianFallback(Null, "", Estimates(tiers))
    ELSE MedianFallback(AnchorM(tiers[k]), MethodAnchor, Estimates(tiers))

\* The pool estimate [M, method] of lines 270-295.
EstimatePool(tiers) == PoolWithAnchor(tiers, FindTicketTier(tiers))

\* if (ignore500 && !t.isTicket && adjusted > 0 && adjusted < 500)
Ignored(t, options) ==
    options.ignoreUnder500 /\ ~t.isTicket /\ Gt(t.value, Num(0)) /\ Lt(t.value, Num(500))

AfterThreshold(t, options) == IF Ignored(t, options) THEN Num(0) ELSE t.value

\* Mutant of AfterTax: ticket tiers are taxed as well.
AfterTax_Tickets(t, a, options) ==
    IF options.applyTax /\ Gt(a, Num(0))
    THEN Mul(a, Sub(Num(1), Div(options.taxRate, Num(100))))
    ELSE a

\* if (doTax && !t.isTicket && adjusted > 0) adjusted = adjusted * (1 - taxRate / 100)
AfterTax(t, a, options) ==
    IF options.applyTax /\ ~t.isTicket /\ Gt(a, Num(0))
    THEN Mul(a, Sub(Num(1), Div(options.taxRate, Num(100))))
    ELSE a

\* The adjustment pipeline of lines 307-317.
Adjusted(t, options) == AfterTax(t, AfterThreshold(t, options), options)

\* One entry of tierResults (the display-only fields prize, oddsText, total,
\* parsedN and tierTicketEst left out).
TierEntry(t, p, adjusted) ==
    [value |-> t.value,
     remaining |-> t.remaining,
     probability |-> p,
     adjustedValue |-> adjusted,
     evContribution |-> Mul(p, adjusted),
     isTicket |-> t.isTicket]

\* Mutant of TierResult: the probability is taken from the total count.
TierResult_ByTotal(t, M, options) == TierEntry(t, Div(t.total, M), Adjusted(t, options))

\* The body of the loop of lines 305-335 for tier t.
TierResult(t, M, options) == TierEntry(t, Div(t.remaining, M), Adjusted(t, options))

\* tierResults: one entry per tier, in the order of the tiers.
RECURSIVE TierResults(_, _, _)
TierResults(tiers, M, options) ==
    IF Len(tiers) = 0 THEN <<>>
    ELSE <<TierResult(Head(tiers), M, options)>> \o TierResults(Tail(tiers), M, options)

\* evGross after the loop over the first k tier results: 0 + c1 + ... + ck.
RECURSIVE SumContrib(_, _)
SumContrib(rs, k) ==
    IF k = 0 THEN Num(0) ELSE Add(SumContrib(rs, k - 1), rs[k].evContribution)

\* Mutant of EVResult: the ticket price is not subtracted.
EVResult_Gross(ticketPrice, est, evGross, rs) ==
    [ticketPrice |-> ticketPrice,
     M |-> est.M,
     method |-> est.method,
     evGross |-> evGross,
     evNet |-> evGross,
     tiers |-> rs]

\* The record returned at lines 339-346.
EVResult(ticketPrice, est, evGross, rs) ==
    [ticketPrice |-> ticketPrice,
     M |-> est.M,
     method |-> est.method,
     evGross |-> evGross,
     evNet |-> Sub(evGross, ticketPrice),
     tiers |-> rs]

\* Mutant of EVWithTiers: the adjusted values are written back to the tiers.
EVWithTiers_WriteBack(g, est, rs) ==
    [game |-> [g EXCEPT !.tiers =
                  [i \in 1..Len(rs) |-> [g.tiers[i] EXCEPT !.value = rs[i].adjustedValue]]],
     ret |-> EVResult(g.ticketPrice, est, SumContrib(rs, Len(rs)), rs)]

\* Lines 301-346, with the tier results.
EVWithTiers(g, est, rs) ==
    [game |-> g, ret |-> EVResult(g.ticketPrice, est, SumContrib(rs, Len(rs)), rs)]

\* Lines 297-346, with the pool estimate.
EVWithPool(g, est, options) ==
    IF NoPool(est.M) THEN [game |-> g, ret |-> [error |-> ErrNoEstimate]]
    ELSE EVWithTiers(g, est, TierResults(g.tiers, est.M, options))

\* Lines 270-346, on the game record with its ticket-tier values resolved.
EVResolved(g, options) == EVWithPool(g, EstimatePool(g.tiers), options)

\* Mutant of computeEV: the tiers are not checked to be present.
computeEV_NoTiersCheck(game, options) ==
    IF ~Truthy(game.ticketPrice)
    THEN [game |-> game, ret |-> [error |-> ErrNeedInput]]
    ELSE EVResolved([game EXCEPT !.tiers = ResolveTicketValues(@, game.ticketPrice)],
                    options)

\* computeEV(game, options): the value returned (ret) and the game record as
\* the call leaves it (game).
computeEV(game, options) ==
    IF ~Truthy(game.ticketPrice) \/ Len(game.tiers) = 0
    THEN [game |-> game, ret |-> [error |-> ErrNeedInput]]
    ELSE EVResolved([game EXCEPT !.tiers = ResolveTicketValues(@, game.ticketPrice)],
                    options)

\* ------------------------------------------- scratchers.js: computeOverview
\* isTicketTier(val), on the labels of LabelSet.
TicketLabels == {"Ticket", "Free Ticket"}

isTicketTier(val) == val \in TicketLabels

\* adjustValue(value, isTicket, options): the threshold step.
adjustThreshold(value, isTicket, options) ==
    IF options.ignoreUnder500 /\ ~isTicket /\ Gt(value, Num(0)) /\ Lt(value, Num(500))
    THEN Num(0)
    ELSE value

\* adjustValue(value, isTicket, options): the tax step on the value a.
adjustTax(a, isTicket, options) ==
    IF options.applyTax /\ ~isTicket /\ Gt(a, Num(0))
    THEN Mul(a, Sub(Num(1), Div(options.taxRate, Num(100))))
    ELSE a

adjustValue(value, isTicket, options) ==
    adjustTax(adjustThreshold(value, isTicket, options), isTicket, options)

\* One element of `resolved`: remaining is t.remaining || 0.
ResolvedWith(t, price, isTkt, remaining) ==
    [label |-> t.label,
     rawValue |-> IF isTkt THEN price ELSE t.value,
     odds |-> ToNum(t.odds),
     remaining |-> remaining,
     total |-> IF Truthy(t.total) THEN t.total ELSE remaining,
     isTicket |-> isTkt]

ResolveTier(t, price) ==
    ResolvedWith(t, price, isTicketTier(t.label) \/ t.isTicket,
                 IF Truthy(t.remaining) THEN t.remaining ELSE Num(0))

\* tiers.map(...)
RECURSIVE ResolveTiers(_, _)
ResolveTiers(tiers, price) ==
    IF Len(tiers) = 0 THEN <<>>
    ELSE <<ResolveTier(Head(tiers), price)>> \o ResolveTiers(Tail(tiers), price)

\* Mutant of IsValid: the odds are not required to be positive.
IsValid_AnyOdds(t) == Gt(t.total, Num(0)) /\ ~IsNaN(t.odds)

IsValid(t) == Gt(t.total, Num(0)) /\ ~IsNaN(t.odds) /\ Gt(t.odds, Num(0))

\* resolved.filter(...)
RECURSIVE ValidTiers(_)
ValidTiers(resolved) ==
    IF Len(resolved) = 0 THEN <<>>
    ELSE IF IsValid(Head(resolved)) THEN <<Head(resolved)>> \o ValidTiers(Tail(resolved))
    ELSE ValidTiers(Tail(resolved))

\* Qs.reduce((a, b) => a + b, 0) over the first k valid tiers.
RECURSIVE SumQ(_, _)
SumQ(valid, k) ==
    IF k = 0 THEN Num(0) ELSE Add(SumQ(valid, k - 1), Mul(valid[k].odds, valid[k].total))

RECURSIVE SumTotal(_, _)
SumTotal(valid, k) == IF k = 0 THEN Num(0) ELSE Add(SumTotal(valid, k - 1), valid[k].total)

RECURSIVE SumRemaining(_, _)
SumRemaining(valid, k) ==
    IF k = 0 THEN Num(0) ELSE Add(SumRemaining(valid, k - 1), valid[k].remaining)

\* The loop of lines 102-106 over the first k valid tiers.
RECURSIVE ClaimedSum(_, _, _)
ClaimedSum(valid, options, k) ==
    IF k = 0 THEN Num(0)
    ELSE Add(ClaimedSum(valid, options, k - 1),
             Mul(adjustValue(valid[k].rawValue, valid[k].isTicket, options), valid[k].total))

\* Mutant of CalcSum: the adjusted values are weighted by the totals.
RECURSIVE CalcSum_Total(_, _, _)
CalcSum_Total(valid, options, k) ==
    IF k = 0 THEN Num(0)
    ELSE Add(CalcSum_Total(valid, options, k - 1),
             Mul(adjustValue(valid[k].rawValue, valid[k].isTicket, options), valid[k].total))

\* The loop of lines 111-115 over the first k valid tiers.
RECURSIVE CalcSum(_, _, _)
CalcSum(valid, options, k) ==
    IF k = 0 THEN Num(0)
    ELSE Add(CalcSum(valid, options, k - 1),
             Mul(adjustValue(valid[k].rawValue, valid[k].isTicket, options),
                 valid[k].remaining))

\* return null
OvNull == [null |-> TRUE]

\* x === 0
IsZero(x) == x.d = 1 /\ x.n = 0

\* Math.abs(x)
AbsN(x) == [n |-> Abs(x.n), d |-> x.d]

\* Mutant of OverviewRow: the claimed net EV is not compared with 0.
OverviewRow_NoZeroCheck(game, calcOddsVal, claimedNet, calcNet) ==
    [name |-> game.name,
     number |-> game.number,
     price |-> game.price,
     claimedOddsText |-> game.claimedOdds,
     calcOddsVal |-> calcOddsVal,
     claimedEV |-> claimedNet,
     calcEV |-> calcNet,
     deltaPercent |-> Mul(Div(Sub(calcNet, claimedNet), AbsN(ToNum(claimedNet))), Num(100))]

\* Lines 119-134 (claimedOddsVal, parsed from the display text, left out).
OverviewRow(game, calcOddsVal, claimedNet, calcNet) ==
    [name |-> game.name,
     number |-> game.number,
     price |-> game.price,
     claimedOddsText |-> game.claimedOdds,
     calcOddsVal |-> calcOddsVal,
     claimedEV |-> claimedNet,
     calcEV |-> calcNet,
     deltaPercent |-> IF ~IsZero(claimedNet)
                      THEN Mul(Div(Sub(calcNet, claimedNet), AbsN(ToNum(claimedNet))), Num(100))
                      ELSE Num(0)]

\* Lines 96-134, with M0, Mhat and Rsum.
OverviewWithMhat(game, valid, M0, Mhat, Rsum, options) ==
    OverviewRow(game, Div(Mhat, Rsum),
                Sub(Div(ClaimedSum(valid, options, Len(valid)), M0), game.price),
                Sub(Div(CalcSum(valid, options, Len(valid)), Mhat), game.price))

\* Mutant of OverviewWithPool: the sum of the remaining counts is not checked.
OverviewWithPool_NoRemainingCheck(game, valid, M0, Tsum, Rsum, options) ==
    IF IsZero(Tsum) \/ IsZero(M0) THEN OvNull
    ELSE OverviewWithMhat(game, valid, M0, Mul(M0, Div(Rsum, Tsum)), Rsum, options)

\* Lines 94-134, with M0, Tsum and Rsum.
OverviewWithPool(game, valid, M0, Tsum, Rsum, options) ==
    IF IsZero(Tsum) \/ IsZero(Rsum) \/ IsZero(M0) THEN OvNull
    ELSE OverviewWithMhat(game, valid, M0, Mul(M0, Div(Rsum, Tsum)), Rsum, options)

\* Lines 84-134, with the valid tiers.
OverviewOfValid(game, valid, options) ==
    IF Len(valid) = 0 THEN OvNull
    ELSE OverviewWithPool(game, valid, Div(SumQ(valid, Len(valid)), Num(Len(valid))),
                          SumTotal(valid, Len(valid)), SumRemaining(valid, Len(valid)),
                          options)

\* A TypeError thrown by reading a property of null.
OvThrown == [thrown |-> TRUE]

\* tiers.map((t) => ... t.label ...) reads a property of a tier entry that
\* is null.
HasNullTier(tiers) == \E i \in 1..Len(tiers) : tiers[i] = Null

\* computeOverview(game, options): the row returned, OvNull for null, and
\* OvThrown when the call ends by a TypeError: at game.price for an entry
\* that is null, at t.label for a tier entry that is null.  The game record
\* is only read.
computeOverview(game, options) ==
    IF game = Null THEN OvThrown
    ELSE IF ~Truthy(game.price) \/ Len(game.tiers) = 0 THEN OvNull
    ELSE IF HasNullTier(game.tiers) THEN OvThrown
    ELSE OverviewOfValid(game, ValidTiers(ResolveTiers(game.tiers, game.price)), options)

\* gamesData.map((g) => computeOverview(g, options)) ends by the exception
\* of one of the calls.
BatchThrows(games, options) ==
    \E k \in 1..Len(games) : computeOverview(games[k], options) = OvThrown

\* gamesData.map((g) => computeOverview(g, options)).filter(Boolean)
KeepRow(r, rest) == IF r = OvNull THEN rest ELSE <<r>> \o rest

RECURSIVE OverviewRows(_, _)
OverviewRows(games, options) ==
    IF Len(games) = 0 THEN <<>>
    ELSE KeepRow(computeOverview(Head(games), options), OverviewRows(Tail(games), options))

\* The comparator of results.sort(...) is positive: a goes behind b.
Behind(a, b, key, dir) ==
    \/ dir = -1 /\ Lt(a[key], b[key])
    \/ dir = 1 /\ Gt(a[key], b[key])

RECURSIVE InsertRow(_, _, _, _)
InsertRow(s, x, key, dir) ==
    IF Len(s) = 0 THEN <<x>>
    ELSE IF Behind(Head(s), x, key, dir) THEN <<x>> \o s
         ELSE <<Head(s)>> \o InsertRow(Tail(s), x, key, dir)

\* results.sort(...): a stable sort by the numeric column key in direction dir.
RECURSIVE SortRows(_, _, _)
SortRows(s, key, dir) ==
    IF Len(s) = 0 THEN <<>>
    ELSE InsertRow(SortRows(SubSeq(s, 1, Len(s) - 1), key, dir), s[Len(s)], key, dir)

\* getOptions(): the options record read from the page's controls.
DefaultTaxRate == 24

TaxRates == {Num(DefaultTaxRate), Num(50)}

AllOptions == [ignoreUnder500 : BOOLEAN, applyTax : BOOLEAN, taxRate : TaxRates]

\* ------------------------------------------------------------------ inputs
Tk(o, r, t) ==
    [isTicket |-> TRUE, value |-> NaN, odds |-> o, remaining |-> Num(r), total |-> Num(t)]

Cash(v, o, r, t) ==
    [isTicket |-> FALSE, value |-> Num(v), odds |-> o, remaining |-> Num(r), total |-> Num(t)]

\* Tiers as collectManualInput and parseCalotteryHtml build them (a ticket
\* tier carries the NaN sentinel as its value).
TierPool ==
    { Tk(Num(5), 2, 3), Tk(Num(3), 2, 2), Tk(Num(3), 0, 2),
      Cash(100, Num(3), 1, 2), Cash(1000, Num(5), 2, 2) }

\* Tiers with unusual odds: ticket tiers whose odds are 0, negative, not a
\* number and infinite (the odds text "Infinity" parses to Infinity), and a
\* cash tier of exactly 500 with negative odds.
EdgePool ==
    { Tk(Num(0), 1, 2), Tk(Num(-3), 1, 2), Tk(NaN, 1, 2), Tk(PosInf, 1, 2),
      Cash(500, Num(-4), 1, 1), Tk(Num(3), 9, 35) }

\* A tier of EdgePool alone, or before or behind a tier of TierPool.
EdgeSeqs ==
    {<<e>> : e \in EdgePool}
        \cup {<<e, t>> : e \in EdgePool, t \in TierPool}
        \cup {<<t, e>> : e \in EdgePool, t \in TierPool}

\* Cash tiers with pairwise different implied ticket counts (3, 8, 10, 14).
MedianPool ==
    { Cash(100, Num(3), 1, 2), Cash(1000, Num(4), 2, 2), Cash(500, Num(5), 2, 3),
      Cash(1000, Num(7), 2, 2) }

SeqsUpTo(S, lo, hi) == UNION {[1..k -> S] : k \in lo..hi}

\* The sequences of 3..MaxMedianTiers different tiers of MedianPool, in every order.
MedianSeqs ==
    {s \in SeqsUpTo(MedianPool, 3, MaxMedianTiers) :
        \A i, j \in 1..Len(s) : i # j => s[i] # s[j]}

TierSeqs == SeqsUpTo(TierPool, 0, MaxTiers) \cup MedianSeqs \cup EdgeSeqs

\* Games with a ticket price of 2, and games of at most one tier with no
\* ticket price.
Games ==
    [ticketPrice : {Num(2)}, tiers : TierSeqs]
        \cup [ticketPrice : {Undefined}, tiers : SeqsUpTo(TierPool, 0, 1)]

\* Tiers of the JSON game data of scratchers.js.
OvTk(o, r, t) ==
    [label |-> "Ticket", isTicket |-> TRUE, value |-> NaN, odds |-> Num(o),
     remaining |-> Num(r), total |-> Num(t)]

OvCash(v, o, r, t) ==
    [label |-> "", isTicket |-> FALSE, value |-> Num(v), odds |-> Num(o),
     remaining |-> Num(r), total |-> Num(t)]

OvGame(name, price, tiers) ==
    [name |-> name, number |-> "", price |-> price, claimedOdds |-> "1 in 4", tiers |-> tiers]

OvGames ==
    { OvGame("A", Num(2), <<OvCash(1000, 5, 1, 2), OvTk(3, 2, 3)>>),
      OvGame("B", Num(2), <<OvCash(100, 3, 1, 2), OvCash(500, 4, 2, 2)>>),
      OvGame("C", Num(2), <<>>) }

\* Games that are analysed alone or next to one game of OvGames: "D" has a
\* tier without total and a tier with odds 0, "Z" has a claimed net EV of
\* exactly 0 when no option is on, "F" has no price, "G" no
\* valid tier, "H" nothing remaining in its valid tiers, "N" has a tier entry
\* that is null, and the last entry is null itself.
EdgeGames ==
    { OvGame("D", Num(3), <<OvTk(4, 1, 0), OvCash(100, 0, 1, 1), OvCash(1000, 6, 0, 3)>>),
      OvGame("Z", Num(2), <<OvCash(3, 2, 1, 2), OvCash(2, 4, 1, 1)>>),
      OvGame("F", Undefined, <<OvCash(1000, 5, 1, 2)>>),
      OvGame("G", Num(2), <<OvCash(100, 0, 1, 1)>>),
      OvGame("H", Num(2), <<OvCash(1000, 5, 0, 2), OvCash(100, 0, 1, 1)>>),
      OvGame("N", Num(2), <<OvCash(1000, 5, 1, 2), Null>>),
      Null }

EdgeBatches ==
    {<<e>> : e \in EdgeGames}
        \cup {<<e, g>> : e \in EdgeGames, g \in OvGames}
        \cup {<<g, e>> : e \in EdgeGames, g \in OvGames}

Batches == SeqsUpTo(OvGames, 0, MaxGames) \cup EdgeBatches

\* The columns the table is sorted by here: the numeric ones among th.dataset.key.
SortKeys == {"calcEV", "price"}

\* ------------------------------------------------------------------- state
NoGame == [ticketPrice |-> Null, tiers |-> <<>>]
Nothing == [nothing |-> TRUE]

ErrNoPrice == "Please enter a ticket price."
ErrNoTiers == "Please add at least one prize tier with data."
ErrNoParse == "Could not parse any prize tiers from the page. Try manual input."

PageErrors == {[error |-> ErrNoPrice], [error |-> ErrNoTiers], [error |-> ErrNoParse]}

VARIABLES
    mode,       \* "page": index.html's handlers (script.js); "api": direct calls of
                \* window._scratcherCalc.computeEV; "overview": scratchers.js
    input,      \* the game data entered in the form / found on the fetched page /
                \* passed by the caller; in mode "overview" the batch pasted as JSON
    lastGame,   \* script.js: let lastGame
    callerGame, \* the record object a direct caller of computeEV holds and passes
    options,    \* the options of the page's controls / of the latest direct call
    shown,      \* what the page shows or the latest direct call returned
    gamesData,  \* scratchers.js: let gamesData
    sortKey,    \* scratchers.js: let sortKey
    sortDir,    \* scratchers.js: let sortDir
    table,      \* scratchers.js: the rows of the table, in the order shown
    sortRequested, \* history: a sortable column header has been clicked
    thrown      \* scratchers.js: the latest handler's renderTable() ended by an
                \* exception thrown in computeOverview

vars ==
    <<mode, input, lastGame, callerGame, options, shown, gamesData, sortKey, sortDir, table,
      sortRequested, thrown>>

scriptVars == <<lastGame, callerGame, shown>>

overviewVars == <<gamesData, sortKey, sortDir, table, sortRequested, thrown>>

Init ==
    /\ mode \in {"page", "api", "overview"}
    /\ input \in IF mode = "overview" THEN Batches ELSE Games
    /\ lastGame = NoGame
    /\ callerGame = IF mode = "api" THEN input ELSE NoGame
    /\ options = [ignoreUnder500 |-> FALSE, applyTax |-> FALSE, taxRate |-> Num(DefaultTaxRate)]
    /\ shown = Nothing
    /\ gamesData = <<>>
    /\ sortKey = "calcEV"
    /\ sortDir = 1
    /\ table = <<>>
    /\ sortRequested = FALSE
    /\ thrown = FALSE

\* collectManualInput(): ticketPrice is parseFloat(...) || 0.
collectManualInput(form) ==
    [form EXCEPT !.ticketPrice = IF Truthy(@) THEN @ ELSE Num(0)]

\* renderResults(game, result), game being the record lastGame refers to.
renderResults(r) ==
    /\ lastGame' = r.game
    /\ shown' = r.ret

\* lastGame = game; result = computeEV(game, getOptions()); renderResults(game, result)
Analyze(game, opts) == renderResults(computeEV(game, opts))

\* The calcBtn click handler on the collected game.
CalcGame(game) ==
    IF ~Truthy(game.ticketPrice)
    THEN shown' = [error |-> ErrNoPrice] /\ UNCHANGED lastGame
    ELSE IF Len(game.tiers) = 0
    THEN shown' = [error |-> ErrNoTiers] /\ UNCHANGED lastGame
    ELSE Analyze(game, options)

\* calcBtn click handler.
CalcClick ==
    /\ mode = "page"
    /\ CalcGame(collectManualInput(input))
    /\ UNCHANGED <<mode, input, callerGame, options>>
    /\ UNCHANGED overviewVars

\* The fetchBtn click handler on the parsed game.
FetchedGame(game) ==
    IF Len(game.tiers) = 0
    THEN shown' = [error |-> ErrNoParse] /\ UNCHANGED lastGame
    ELSE Analyze(game, options)

\* fetchBtn click handler, from the arrival of the page on: the parsed page
\* has an integer ticket price, 0 when none was found.
FetchClick ==
    /\ mode = "page"
    /\ FetchedGame(collectManualInput(input))
    /\ UNCHANGED <<mode, input, callerGame, options>>
    /\ UNCHANGED overviewVars

\* recalculate(), with the options as the change leaves them.
recalculate(opts) ==
    IF lastGame = NoGame THEN UNCHANGED <<lastGame, shown>>
    ELSE Analyze(lastGame, opts)

\* renderTable(), with the options and the sort as the event leaves them: an
\* exception of computeOverview leaves the function before the table is
\* touched.
renderTable(games, opts, key, dir) ==
    IF BatchThrows(games, opts)
    THEN thrown' = TRUE /\ UNCHANGED table
    ELSE thrown' = FALSE /\ table' = SortRows(OverviewRows(games, opts), key, dir)

\* A handler of scratchers.js that does not call renderTable().
NoRender == thrown' = FALSE /\ UNCHANGED table

\* What an option change does on the page that is open.
OptionsChanged ==
    /\ mode \in {"page", "overview"}
    /\ IF mode = "page"
       THEN recalculate(options') /\ UNCHANGED <<table, thrown>>
       ELSE /\ UNCHANGED <<lastGame, shown>>
            /\ IF Len(gamesData) > 0 THEN renderTable(gamesData, options', sortKey, sortDir)
               ELSE NoRender
    /\ UNCHANGED <<mode, input, callerGame, gamesData, sortKey, sortDir, sortRequested>>

\* change handler of the ignore-under-500 checkbox.
ToggleIgnore ==
    /\ options' = [options EXCEPT !.ignoreUnder500 = ~@]
    /\ OptionsChanged

\* change handler of the apply-tax checkbox.
ToggleTax ==
    /\ options' = [options EXCEPT !.applyTax = ~@]
    /\ OptionsChanged

\* input handler of the tax-rate field.
SetTaxRate ==
    \E r \in TaxRates \ {options.taxRate} :
        /\ options' = [options EXCEPT !.taxRate = r]
        /\ OptionsChanged

ApiReturn(r, o) ==
    /\ callerGame' = r.game
    /\ shown' = r.ret
    /\ options' = o

\* A direct call computeEV(callerGame, o) through window._scratcherCalc.
ApiCall ==
    /\ mode = "api"
    /\ \E o \in AllOptions : ApiReturn(computeEV(callerGame, o), o)
    /\ UNCHANGED <<mode, input, lastGame>>
    /\ UNCHANGED overviewVars

\* loadJsonBtn click handler, on JSON text that parses to the batch `input`.
LoadJson ==
    /\ mode = "overview"
    /\ gamesData' = input
    /\ renderTable(input, options, sortKey, sortDir)
    /\ UNCHANGED <<mode, input, options, sortKey, sortDir, sortRequested>>
    /\ UNCHANGED scriptVars

\* click handler of a sortable column header.
SortClick ==
    /\ mode = "overview"
    /\ \E key \in SortKeys :
        /\ sortKey' = key
        /\ sortDir' = IF sortKey = key THEN -sortDir ELSE -1
        /\ IF Len(gamesData) > 0 THEN renderTable(gamesData, options, key, sortDir')
           ELSE NoRender
    /\ sortRequested' = TRUE
    /\ UNCHANGED <<mode, input, options, gamesData>>
    /\ UNCHANGED scriptVars

Next ==
    \/ CalcClick
    \/ FetchClick
    \/ ToggleIgnore
    \/ ToggleTax
    \/ SetTaxRate
    \/ ApiCall
    \/ LoadJson
    \/ SortClick

Spec == Init /\ [][Next]_vars

\* ------------------------------------------------------------------ claims
\* The game record as it was built, before any call of computeEV.
TheGame == IF mode = "page" THEN collectManualInput(input) ELSE input

\* `shown` is the value returned by the latest call of computeEV, made with
\* the options `options`.
Returned == mode \in {"page", "api"} /\ shown # Nothing /\ shown \notin PageErrors

IsError(r) == DOMAIN r = {"error"}

IsEVResult(r) == "M" \in DOMAIN r

Succeeded == Returned /\ IsEVResult(shown)

\* The precondition of computeEV holds of the game.
HasInput == Truthy(TheGame.ticketPrice) /\ Len(TheGame.tiers) > 0

\* Tier t is a ticket tier with total > 0, remaining > 0 and numeric odds.
Qualifies(t) ==
    /\ t.isTicket
    /\ IsFin(t.total) /\ t.total.n > 0
    /\ IsFin(t.remaining) /\ t.remaining.n > 0
    /\ t.odds # NaN /\ t.odds # Undefined

\* (total * odds) * (remaining / total) of tier t.
AnchorFormula(t) == Mul(Mul(t.total, t.odds), Div(t.remaining, t.total))

QualifyingTiers == {i \in 1..Len(TheGame.tiers) : Qualifies(TheGame.tiers[i])}

\* The first tier in input order that qualifies (0: none).
FirstQualifying ==
    IF QualifyingTiers = {} THEN 0
    ELSE CHOOSE i \in QualifyingTiers : \A j \in QualifyingTiers : i <= j

Positive(x) == x = PosInf \/ (IsFin(x) /\ x.n > 0)

\* C1: computeEV on a game with no (or a zero) ticket price or with no tiers
\* returns a failure value that carries the description string and nothing
\* else, whatever the options are.
C1_MissingPrecondition ==
    (Returned /\ ~HasInput) =>
        /\ IsError(shown)
        /\ shown.error = ErrNeedInput

\* C1 witness: a direct call on a game with a ticket price and an empty tiers
\* array has returned the failure value.
C1_Witness ==
    /\ mode = "api"
    /\ Truthy(input.ticketPrice) /\ Len(input.tiers) = 0
    /\ options.applyTax
    /\ shown = [error |-> ErrNeedInput]

\* C2 (as claimed): with a ticket price and tiers, computeEV returns the
\* estimation failure, different from the MissingPrecondition failure and
\* with no result field, when the pool estimate is not positive and finite;
\* and every EVResult it returns has a positive finite M.
C2_PositiveFiniteM ==
    (Returned /\ HasInput) =>
        IF IsEVResult(shown)
        THEN IsFin(shown.M) /\ shown.M.n > 0
        ELSE IsError(shown) /\ shown.error = ErrNoEstimate /\ shown.error # ErrNeedInput

\* C3 (as claimed): whenever SOME tier is a ticket tier with total > 0,
\* remaining > 0 and numeric odds that gives M > 0, the result's M and method
\* are those of the ticket-tier anchor.
C3_SomeAnchorWins ==
    (Returned /\ HasInput) =>
        \A i \in QualifyingTiers :
            Positive(AnchorFormula(TheGame.tiers[i])) =>
                /\ IsEVResult(shown)
                /\ shown.method = MethodAnchor
                /\ \E j \in QualifyingTiers : shown.M = AnchorFormula(TheGame.tiers[j])

\* C3 (amended): the strategies are tried in order.  When the FIRST tier in
\* input order that is a ticket tier with total > 0, remaining > 0 and numeric
\* odds gives M > 0, the result's M and method are those of that anchor,
\* whatever the other tiers are; the median fallback is used only when no
\* tier qualifies or the first qualifying one gives M <= 0.
C3_FirstAnchorWins ==
    (Returned /\ HasInput) =>
        IF FirstQualifying # 0 /\ Positive(AnchorFormula(TheGame.tiers[FirstQualifying]))
        THEN /\ IsEVResult(shown)
             /\ shown.method = MethodAnchor
             /\ shown.M = AnchorFormula(TheGame.tiers[FirstQualifying])
        ELSE IsEVResult(shown) => shown.method = MethodMedian

\* C3 witness: the anchor is used although another tier would enter the
\* median, and the two strategies give different pools.
C3_Witness ==
    /\ Succeeded
    /\ shown.method = MethodAnchor
    /\ Len(TheGame.tiers) = 2
    /\ \E i \in 1..2 : ~TheGame.tiers[i].isTicket /\ Positive(TheGame.tiers[i].odds)
    /\ shown.M # MedianOfSorted(SortAsc(Estimates(TheGame.tiers)))

\* C4: when the ticket-tier anchor is used, M = (total * odds) * (remaining /
\* total) of the anchoring tier, and M = total * odds exactly when that tier
\* has remaining = total.
C4_AnchorFormula ==
    (Succeeded /\ shown.method = MethodAnchor) =>
        /\ FirstQualifying # 0
        /\ shown.M = AnchorFormula(TheGame.tiers[FirstQualifying])
        /\ TheGame.tiers[FirstQualifying].remaining = TheGame.tiers[FirstQualifying].total
              => shown.M = Mul(TheGame.tiers[FirstQualifying].total,
                               TheGame.tiers[FirstQualifying].odds)

\* C4 witness: the anchor is used on a tier with remaining < total, and the
\* scaled pool differs from total * odds.
C4_Witness ==
    /\ Succeeded
    /\ shown.method = MethodAnchor
    /\ Lt(TheGame.tiers[FirstQualifying].remaining, TheGame.tiers[FirstQualifying].total)
    /\ shown.M # Mul(TheGame.tiers[FirstQualifying].total, TheGame.tiers[FirstQualifying].odds)

\* The tiers that enter the median: remaining > 0 and numeric odds > 0.
Contributing ==
    {i \in 1..Len(TheGame.tiers) :
        /\ Positive(TheGame.tiers[i].remaining)
        /\ TheGame.tiers[i].odds # NaN
        /\ Positive(TheGame.tiers[i].odds)}

\* remaining * odds of tier i.
Implied(i) == Mul(TheGame.tiers[i].remaining, TheGame.tiers[i].odds)

Below(x) == Cardinality({k \in Contributing : Lt(Implied(k), x)})

Above(x) == Cardinality({k \in Contributing : Gt(Implied(k), x)})

\* m is the median of the multiset {Implied(i) : i \in Contributing}, stated
\* without reference to any order of the tiers.
IsMedian(m) ==
    IF Cardinality(Contributing) % 2 = 1
    THEN \E i \in Contributing :
            /\ m = Implied(i)
            /\ 2 * Below(Implied(i)) < Cardinality(Contributing)
            /\ 2 * Above(Implied(i)) < Cardinality(Contributing)
    ELSE \E i, j \in Contributing :
            /\ i # j
            /\ Le(Implied(i), Implied(j))
            /\ m = Div(Add(Implied(i), Implied(j)), Num(2))
            /\ 2 * Below(Implied(i)) < Cardinality(Contributing)
            /\ 2 * Above(Implied(j)) < Cardinality(Contributing)
            /\ 2 * (Cardinality(Contributing) - Above(Implied(i))) >= Cardinality(Contributing)
            /\ 2 * (Cardinality(Contributing) - Below(Implied(j))) >= Cardinality(Contributing)

TicketTiers == {i \in 1..Len(TheGame.tiers) : TheGame.tiers[i].isTicket}

\* The game has ticket tiers, and each of them has remaining = 0.
TicketTiersExhausted ==
    /\ TicketTiers # {}
    /\ \A i \in TicketTiers : TheGame.tiers[i].remaining = Num(0)

\* C5 (as claimed): computeEV on a game whose ticket tier has remaining = 0
\* returns the estimation failure, not an EVResult.
C5_ExhaustedTicketFails ==
    (Returned /\ HasInput /\ TicketTiersExhausted) =>
        shown = [error |-> ErrNoEstimate]

\* C5 (amended): a ticket tier with remaining = 0 gives no pool (its anchor
\* formula is 0), so a game whose ticket tiers all have remaining = 0 gets
\* its pool from the median fallback only: computeEV returns the estimation
\* failure exactly when no tier has remaining > 0 and numeric odds > 0, and
\* otherwise an EVResult by the median fallback.
C5_ExhaustedTicketFallsBack ==
    (Returned /\ HasInput /\ TicketTiersExhausted) =>
        /\ \A i \in TicketTiers :
              (Positive(TheGame.tiers[i].total) /\ IsFin(TheGame.tiers[i].odds))
                 => AnchorFormula(TheGame.tiers[i]) = Num(0)
        /\ IF Contributing = {}
           THEN shown = [error |-> ErrNoEstimate]
           ELSE IsEVResult(shown) /\ shown.method = MethodMedian /\ IsMedian(shown.M)

\* C5 witness: a game whose only ticket tier has remaining = 0, and which has
\* a prize tier that enters the median, got a result.
C5_Witness ==
    /\ Returned /\ HasInput /\ TicketTiersExhausted
    /\ Contributing # {}
    /\ IsEVResult(shown)

\* C6: when the median fallback is used, M is the median of remaining * odds
\* over exactly the tiers with remaining > 0 and numeric odds > 0: the middle
\* value for an odd number of them, the average of the two middle values for
\* an even number; the order of the tiers does not matter.
C6_Median ==
    (Succeeded /\ shown.method = MethodMedian) =>
        /\ Contributing # {}
        /\ IsMedian(shown.M)

\* C6 witness: the median of four tiers that are not given in ascending order
\* of remaining * odds.
C6_Witness ==
    /\ Succeeded /\ shown.method = MethodMedian
    /\ Cardinality(Contributing) = 4
    /\ Gt(Implied(1), Implied(2)) /\ Gt(Implied(3), Implied(4))

\* The adjusted value of a prize worth v, by the two steps in their order.
Zeroed(v, opts) == opts.ignoreUnder500 /\ Positive(v) /\ Lt(v, Num(500))

Taxed(a, opts) == Mul(a, Sub(Num(1), Div(opts.taxRate, Num(100))))

ExpectedAdjusted(v, opts) ==
    IF Zeroed(v, opts) THEN Num(0)
    ELSE IF opts.applyTax /\ Positive(v) THEN Taxed(v, opts)
    ELSE v

\* C7 in the single-game engine, for tier i of the result.
PipelineHolds(i) ==
    IF TheGame.tiers[i].isTicket
    THEN shown.tiers[i].adjustedValue = TheGame.ticketPrice
    ELSE /\ shown.tiers[i].adjustedValue = ExpectedAdjusted(TheGame.tiers[i].value, options)
         /\ Zeroed(TheGame.tiers[i].value, options)
               => shown.tiers[i].adjustedValue = Num(0)
         /\ Le(Num(500), TheGame.tiers[i].value)
               => shown.tiers[i].adjustedValue \in
                     {TheGame.tiers[i].value, Taxed(TheGame.tiers[i].value, options)}

\* C7 in the comparative engine, for the resolved tier r of game g.
OverviewPipelineHolds(g, r) ==
    IF r.isTicket
    THEN adjustValue(r.rawValue, r.isTicket, options) = g.price
    ELSE /\ adjustValue(r.rawValue, r.isTicket, options) = ExpectedAdjusted(r.rawValue, options)
         /\ Zeroed(r.rawValue, options)
               => adjustValue(r.rawValue, r.isTicket, options) = Num(0)
         /\ Le(Num(500), r.rawValue)
               => adjustValue(r.rawValue, r.isTicket, options) \in
                     {r.rawValue, Taxed(r.rawValue, options)}

\* C7: the adjustments apply to non-ticket tiers only and in a fixed order:
\* a value with 0 < value < 500 becomes 0 under ignoreUnder500, and then a
\* value still > 0 is multiplied by (1 - taxRate / 100) under applyTax.  A
\* zeroed value is never taxed, a value >= 500 is never zeroed, and a ticket
\* tier's adjusted value is the ticket price under all options, in both
\* engines.
C7_Pipeline ==
    /\ Succeeded =>
          /\ Len(shown.tiers) = Len(TheGame.tiers)
          /\ \A i \in 1..Len(TheGame.tiers) : PipelineHolds(i)
    /\ (mode = "overview" /\ ~thrown) =>
          \A k \in 1..Len(gamesData) :
             \A i \in 1..Len(gamesData[k].tiers) :
                OverviewPipelineHolds(gamesData[k],
                                      ResolveTiers(gamesData[k].tiers, gamesData[k].price)[i])

\* C7 witness: with both options on, a result with a ticket tier and a prize
\* under 500.
C7_Witness ==
    /\ Succeeded
    /\ options.ignoreUnder500 /\ options.applyTax
    /\ \E i \in 1..Len(TheGame.tiers) : TheGame.tiers[i].isTicket
    /\ \E i \in 1..Len(TheGame.tiers) :
          ~TheGame.tiers[i].isTicket /\ Zeroed(TheGame.tiers[i].value, options)

\* 0 + c1 + ... + ck over the tier results rs, in their order.
RECURSIVE GrossOf(_, _)
GrossOf(rs, k) == IF k = 0 THEN Num(0) ELSE Add(GrossOf(rs, k - 1), rs[k].evContribution)

\* C8: in every EVResult there is one tier result per tier of the game, in
\* input order, with probability = remaining / M and contribution =
\* probability * adjustedValue; evGross is the sum of the contributions and
\* evNet = evGross - ticketPrice.
C8_EVArithmetic ==
    Succeeded =>
        /\ Len(shown.tiers) = Len(TheGame.tiers)
        /\ \A i \in 1..Len(TheGame.tiers) :
              /\ shown.tiers[i].remaining = TheGame.tiers[i].remaining
              /\ shown.tiers[i].isTicket = TheGame.tiers[i].isTicket
              /\ shown.tiers[i].probability = Div(TheGame.tiers[i].remaining, shown.M)
              /\ shown.tiers[i].evContribution =
                    Mul(shown.tiers[i].probability, shown.tiers[i].adjustedValue)
        /\ shown.evGross = GrossOf(shown.tiers, Len(shown.tiers))
        /\ shown.evNet = Sub(shown.evGross, TheGame.ticketPrice)
        /\ shown.ticketPrice = TheGame.ticketPrice

\* C8 witness: a result over several tiers with a positive gross EV.
C8_Witness ==
    /\ Succeeded
    /\ Len(shown.tiers) >= 2
    /\ Positive(shown.tiers[1].evContribution) /\ Positive(shown.tiers[2].evContribution)
    /\ shown.evNet # shown.evGross

\* C9: after any sequence of recomputations (option changes on the held game
\* record, repeated calls of computeEV or computeOverview) the result for the
\* current options is that of one computation on the original game record
\* with those options; each tier's value in the result is its resolved value,
\* never an adjusted one.
C9_Recomputation ==
    /\ Returned =>
          /\ shown = computeEV(TheGame, options).ret
          /\ IsEVResult(shown) =>
                \A i \in 1..Len(TheGame.tiers) :
                   shown.tiers[i].value =
                      IF TheGame.tiers[i].isTicket THEN TheGame.ticketPrice
                      ELSE TheGame.tiers[i].value
    /\ (mode = "overview" /\ gamesData # <<>> /\ ~thrown) =>
          table = SortRows(OverviewRows(input, options), sortKey, sortDir)

\* C9 witness: a result on the held record after at least three option
\* changes, with a prize that the current options tax.
C9_Witness ==
    /\ mode = "page" /\ Succeeded
    /\ options.ignoreUnder500 /\ options.applyTax /\ options.taxRate = Num(50)
    /\ \E i \in 1..Len(TheGame.tiers) :
          /\ ~TheGame.tiers[i].isTicket
          /\ shown.tiers[i].adjustedValue = Taxed(TheGame.tiers[i].value, options)
          /\ shown.tiers[i].adjustedValue # TheGame.tiers[i].value

\* The game record the calls of computeEV were made on, as it is now.
HeldGame == IF mode = "page" THEN lastGame ELSE callerGame

\* C10: computeEV leaves the game record as it was except for the value of
\* ticket tiers: after any call the ticket price, the number and order of the
\* tiers and every tier's isTicket, odds, remaining and total are unchanged,
\* the value of a non-ticket tier is unchanged, and the value of a ticket
\* tier is either unchanged or the ticket price.  computeOverview changes
\* nothing in its game records.
C10_Frame ==
    /\ (mode \in {"page", "api"} /\ HeldGame # NoGame) =>
          /\ HeldGame.ticketPrice = TheGame.ticketPrice
          /\ Len(HeldGame.tiers) = Len(TheGame.tiers)
          /\ \A i \in 1..Len(TheGame.tiers) :
                /\ HeldGame.tiers[i].isTicket = TheGame.tiers[i].isTicket
                /\ HeldGame.tiers[i].odds = TheGame.tiers[i].odds
                /\ HeldGame.tiers[i].remaining = TheGame.tiers[i].remaining
                /\ HeldGame.tiers[i].total = TheGame.tiers[i].total
                /\ IF TheGame.tiers[i].isTicket
                   THEN HeldGame.tiers[i].value \in
                           {TheGame.tiers[i].value, TheGame.ticketPrice}
                   ELSE HeldGame.tiers[i].value = TheGame.tiers[i].value
    /\ (mode = "overview" /\ table # <<>>) => gamesData = input

\* C10 witness: after a call that returned a result, the record differs from
\* the original one, and it has a prize tier.
C10_Witness ==
    /\ mode = "api" /\ Succeeded
    /\ callerGame # input
    /\ \E i \in 1..Len(input.tiers) : ~input.tiers[i].isTicket

\* ------------------------------------------------- the comparative engine
\* The total count of tier t as the comparative engine takes it: the tier's
\* total, else its remaining count.
TotalOf(t) ==
    IF Truthy(t.total) THEN t.total
    ELSE IF Truthy(t.remaining) THEN t.remaining
    ELSE Num(0)

\* The remaining count of tier t, 0 when it has none.
RemainingOf(t) == IF Truthy(t.remaining) THEN t.remaining ELSE Num(0)

\* Tier t is valid: total > 0 and numeric odds > 0.
ValidTier(t) == Positive(TotalOf(t)) /\ ToNum(t.odds) # NaN /\ Positive(ToNum(t.odds))

ValidCount(g) == Cardinality({i \in 1..Len(g.tiers) : ValidTier(g.tiers[i])})

\* The sum of odds_i * total_i over the valid tiers among the first k.
RECURSIVE QSumOf(_, _)
QSumOf(g, k) ==
    IF k = 0 THEN Num(0)
    ELSE IF ValidTier(g.tiers[k])
    THEN Add(QSumOf(g, k - 1), Mul(ToNum(g.tiers[k].odds), TotalOf(g.tiers[k])))
    ELSE QSumOf(g, k - 1)

\* The sum of the totals of the valid tiers among the first k.
RECURSIVE TotalSumOf(_, _)
TotalSumOf(g, k) ==
    IF k = 0 THEN Num(0)
    ELSE IF ValidTier(g.tiers[k]) THEN Add(TotalSumOf(g, k - 1), TotalOf(g.tiers[k]))
    ELSE TotalSumOf(g, k - 1)

\* The sum of the remaining counts of the valid tiers among the first k.
RECURSIVE RemainingSumOf(_, _)
RemainingSumOf(g, k) ==
    IF k = 0 THEN Num(0)
    ELSE IF ValidTier(g.tiers[k]) THEN Add(RemainingSumOf(g, k - 1), RemainingOf(g.tiers[k]))
    ELSE RemainingSumOf(g, k - 1)

\* M0: the arithmetic mean of odds_i * total_i over the valid tiers.
MeanQ(g) == Div(QSumOf(g, Len(g.tiers)), Num(ValidCount(g)))

\* Mhat = M0 * (sum of remaining / sum of total).
MhatOf(g) ==
    Mul(MeanQ(g), Div(RemainingSumOf(g, Len(g.tiers)), TotalSumOf(g, Len(g.tiers))))

\* The games of the loaded batch that row r of the table can come from.
GamesOfRow(r) == {j \in 1..Len(gamesData) : gamesData[j].name = r.name}

\* C11: in comparative mode the pool is estimated by the mean ratio only: the
\* valid tiers are those with total > 0 and numeric odds > 0, M0 is the mean
\* of odds * total over them, Mhat = M0 * (sum of remaining / sum of total),
\* and the calculated odds reported is Mhat / sum of remaining.
C11_MeanRatio ==
    (mode = "overview" /\ ~thrown) =>
        \A k \in 1..Len(table) :
            /\ GamesOfRow(table[k]) # {}
            /\ \A j \in GamesOfRow(table[k]) :
                  /\ ValidCount(gamesData[j]) > 0
                  /\ table[k].calcOddsVal =
                        Div(MhatOf(gamesData[j]),
                            RemainingSumOf(gamesData[j], Len(gamesData[j].tiers)))

\* C11 witness: a row of a game that has a tier that is not valid, and fewer
\* tickets remaining than in total.
C11_Witness ==
    /\ mode = "overview"
    /\ \E k \in 1..Len(table) : \E j \in GamesOfRow(table[k]) :
          /\ ValidCount(gamesData[j]) = 2
          /\ Len(gamesData[j].tiers) = 3
          /\ Lt(RemainingSumOf(gamesData[j], 3), TotalSumOf(gamesData[j], 3))
          /\ IsFin(table[k].calcOddsVal)

\* The adjusted value of tier t of game g in the comparative engine.
AdjustedOf(g, t) ==
    IF isTicketTier(t.label) \/ t.isTicket THEN g.price
    ELSE ExpectedAdjusted(t.value, options)

\* The sum of adjustedValue * total over the valid tiers among the first k.
RECURSIVE ClaimedGrossOf(_, _)
ClaimedGrossOf(g, k) ==
    IF k = 0 THEN Num(0)
    ELSE IF ValidTier(g.tiers[k])
    THEN Add(ClaimedGrossOf(g, k - 1), Mul(AdjustedOf(g, g.tiers[k]), TotalOf(g.tiers[k])))
    ELSE ClaimedGrossOf(g, k - 1)

\* The sum of adjustedValue * remaining over the valid tiers among the first k.
RECURSIVE CalcGrossOf(_, _)
CalcGrossOf(g, k) ==
    IF k = 0 THEN Num(0)
    ELSE IF ValidTier(g.tiers[k])
    THEN Add(CalcGrossOf(g, k - 1), Mul(AdjustedOf(g, g.tiers[k]), RemainingOf(g.tiers[k])))
    ELSE CalcGrossOf(g, k - 1)

\* C12: for every game with a result, claimedEV = (sum over the valid tiers
\* of adjustedValue * total) / M0 - price and calcEV = (sum over the valid
\* tiers of adjustedValue * remaining) / Mhat - price, with the same adjusted
\* value of a tier in both sums; tiers that are not valid contribute to
\* neither.
C12_ClaimedAndCalcEV ==
    (mode = "overview" /\ ~thrown) =>
        \A k \in 1..Len(table) : \A j \in GamesOfRow(table[k]) :
            /\ table[k].claimedEV =
                  Sub(Div(ClaimedGrossOf(gamesData[j], Len(gamesData[j].tiers)),
                          MeanQ(gamesData[j])),
                      gamesData[j].price)
            /\ table[k].calcEV =
                  Sub(Div(CalcGrossOf(gamesData[j], Len(gamesData[j].tiers)),
                          MhatOf(gamesData[j])),
                      gamesData[j].price)

\* C12 witness: a row of a game with a ticket tier and a taxed prize, whose
\* claimed and calculated EV differ.
C12_Witness ==
    /\ mode = "overview"
    /\ options.applyTax
    /\ \E k \in 1..Len(table) : \E j \in GamesOfRow(table[k]) :
          /\ \E i \in 1..Len(gamesData[j].tiers) : gamesData[j].tiers[i].isTicket
          /\ \E i \in 1..Len(gamesData[j].tiers) :
                /\ ~gamesData[j].tiers[i].isTicket
                /\ ValidTier(gamesData[j].tiers[i])
                /\ AdjustedOf(gamesData[j], gamesData[j].tiers[i]) # gamesData[j].tiers[i].value
          /\ table[k].claimedEV # table[k].calcEV

\* |x| of a number x.
Magnitude(x) == IF IsFin(x) THEN [n |-> Abs(x.n), d |-> x.d] ELSE IF x = NaN THEN NaN ELSE PosInf

\* C13: deltaPercent is ((calcNet - claimedNet) / |claimedNet|) * 100 when
\* claimedNet is not 0, and exactly 0 when claimedNet is exactly 0: a zero
\* claimed net EV never gives Infinity or NaN.
C13_DeltaPercent ==
    (mode = "overview" /\ ~thrown) =>
        \A k \in 1..Len(table) :
            IF table[k].claimedEV = Num(0)
            THEN table[k].deltaPercent = Num(0)
            ELSE table[k].deltaPercent =
                    Mul(Div(Sub(table[k].calcEV, table[k].claimedEV),
                            Magnitude(table[k].claimedEV)),
                        Num(100))

\* C13 witness: a row whose claimed net EV is exactly 0 and whose calculated
\* net EV is not.
C13_Witness ==
    /\ mode = "overview"
    /\ \E k \in 1..Len(table) :
          /\ table[k].claimedEV = Num(0)
          /\ table[k].calcEV # Num(0)
          /\ table[k].deltaPercent = Num(0)

\* Game g has no price, no tiers, no valid tier, a zero sum of totals, a zero
\* sum of remaining counts or a zero M0.
NoResultFor(g) ==
    \/ ~Truthy(g.price)
    \/ Len(g.tiers) = 0
    \/ ValidCount(g) = 0
    \/ TotalSumOf(g, Len(g.tiers)) = Num(0)
    \/ RemainingSumOf(g, Len(g.tiers)) = Num(0)
    \/ MeanQ(g) = Num(0)

RowFields ==
    {"price", "name", "number", "claimedOddsText", "calcOddsVal", "claimedEV", "calcEV",
     "deltaPercent"}

\* The rows of the table, and the games of the batch, of the name of game g.
RowsNamed(g) == {k \in 1..Len(table) : table[k].name = g.name}

GamesNamed(g) == {j \in 1..Len(gamesData) : gamesData[j].name = g.name}

\* C14: computeOverview gives no result (the absent value, not an error) for
\* a game exactly when the game has no price, no tiers, no valid tier, a zero
\* summed total, a zero summed remaining or a zero M0; for every other game
\* it gives a result with the fields price, name, number, claimed odds text,
\* calculated odds, claimed EV, calculated EV and delta percent.
C14_AbsentOrResult ==
    (mode = "overview" /\ ~thrown) =>
        \A j \in 1..Len(gamesData) :
            IF NoResultFor(gamesData[j])
            THEN /\ computeOverview(gamesData[j], options) = OvNull
                 /\ RowsNamed(gamesData[j]) = {}
            ELSE /\ RowFields \subseteq DOMAIN computeOverview(gamesData[j], options)
                 /\ Cardinality(RowsNamed(gamesData[j])) = Cardinality(GamesNamed(gamesData[j]))
                 /\ \A k \in RowsNamed(gamesData[j]) : RowFields \subseteq DOMAIN table[k]

\* C14 witness: a batch of a game whose valid tiers have nothing remaining
\* and a game with a result; the table has the one row.
C14_Witness ==
    /\ mode = "overview" /\ ~thrown
    /\ Len(gamesData) = 2
    /\ ValidCount(gamesData[1]) > 0
    /\ RemainingSumOf(gamesData[1], Len(gamesData[1].tiers)) = Num(0)
    /\ ~NoResultFor(gamesData[2])
    /\ Len(table) = 1

\* The results of the first k games of the loaded batch, each game analysed
\* alone, in the order of the games.
RECURSIVE AloneRows(_)
AloneRows(k) ==
    IF k = 0 THEN <<>>
    ELSE IF NoResultFor(gamesData[k]) THEN AloneRows(k - 1)
    ELSE Append(AloneRows(k - 1), computeOverview(gamesData[k], options))

\* C15 (as claimed): the batch result has one result per game that does not
\* fail, each the same as if its game were analysed alone, and as long as no
\* sort has been requested the results are in the relative order of their
\* games in the input.
C15_BatchOrder ==
    (mode = "overview" /\ ~thrown) =>
        /\ Len(table) = Len(AloneRows(Len(gamesData)))
        /\ \A k \in 1..Len(table) :
              \E j \in 1..Len(AloneRows(Len(gamesData))) :
                 table[k] = AloneRows(Len(gamesData))[j]
        /\ ~sortRequested => table = AloneRows(Len(gamesData))

\* Entry g of a batch is a game object none of whose tier entries is null.
WellFormed(g) == g # Null /\ \A i \in 1..Len(g.tiers) : g.tiers[i] # Null

\* The entries of the loaded batch that are well formed and have a result.
Survivors == {j \in 1..Len(gamesData) : WellFormed(gamesData[j]) /\ ~NoResultFor(gamesData[j])}

\* C16 (as claimed): no handler ends by an exception of the engine: a
\* malformed entry of the batch is skipped, and the other games of the batch
\* have their rows.
C16_NoException ==
    mode = "overview" =>
        /\ ~thrown
        /\ Len(table) = Cardinality(Survivors)

\* ------------------------------------------------------ the anchor's pool
\* The tier the ticket-tier anchor is taken from.
AnchorTier == TheGame.tiers[FirstQualifying]

\* x is y up to k roundings: |x - y| <= k * 2^-Prec * |y|, and x = y when
\* one of them is not finite.
Close(x, y, k) ==
    IF IsFin(x) /\ IsFin(y)
    THEN Abs(x.n * y.d - y.n * x.d) * TwoP <= k * Abs(y.n) * x.d
    ELSE x = y

\* odds * remaining of tier t, without rounding.
ExactPool(t) ==
    IF IsFin(t.odds) /\ IsFin(t.remaining)
    THEN Norm(t.odds.n * t.remaining.n, t.odds.d * t.remaining.d)
    ELSE Mul(t.odds, t.remaining)

\* 1 / odds of tier t, without rounding.
ExactChance(t) ==
    IF IsFin(t.odds) /\ t.odds.n > 0 THEN Norm(t.odds.d, t.odds.n)
    ELSE Div(Num(1), t.odds)

\* C17 (as claimed): when the ticket-tier anchor is used, the anchor is the
\* first qualifying tier, M is odds * remaining of that tier, and the tier's
\* reported probability is 1 / odds.
C17_AnchorIdentity ==
    (Succeeded /\ shown.method = MethodAnchor) =>
        /\ FirstQualifying # 0
        /\ shown.M = Mul(AnchorTier.odds, AnchorTier.remaining)
        /\ shown.tiers[FirstQualifying].probability = Div(Num(1), AnchorTier.odds)

\* C17 (amended): when the ticket-tier anchor is used, the anchor is the
\* first qualifying tier and M is (total * odds) * (remaining / total) as
\* computed in floating point: it is odds * remaining up to the rounding of
\* the three operations, and exactly when remaining = total; the tier's
\* reported probability remaining / M is 1 / odds up to rounding; this
\* whatever the other tiers and the options are.
C17_AnchorUpToRounding ==
    (Succeeded /\ shown.method = MethodAnchor) =>
        /\ FirstQualifying # 0
        /\ shown.M = AnchorFormula(AnchorTier)
        /\ Close(shown.M, ExactPool(AnchorTier), 4)
        /\ AnchorTier.remaining = AnchorTier.total
              => shown.M = Mul(AnchorTier.odds, AnchorTier.remaining)
        /\ shown.tiers[FirstQualifying].probability = Div(AnchorTier.remaining, shown.M)
        /\ Close(shown.tiers[FirstQualifying].probability, ExactChance(AnchorTier), 6)

\* C17 witness: the anchor is used on a tier for which the rounded chain
\* gives an M that is not odds * remaining and a probability that is not
\* 1 / odds, next to another tier and with an option on.
C17_Witness ==
    /\ Succeeded /\ shown.method = MethodAnchor
    /\ Len(TheGame.tiers) = 2
    /\ options.applyTax
    /\ shown.M # Mul(AnchorTier.odds, AnchorTier.remaining)
    /\ shown.tiers[FirstQualifying].probability # Div(Num(1), AnchorTier.odds)
====
